---- MODULE Spec2Model ----
(***************************************************************************)
(* CeRTSearcH (src/certsearch.go): main().  The flags are validated and    *)
(* the SQL statement is built from them; then the scan loop walks the      *)
(* crt.sh ID keyspace in batches: throttle / cancellation select,          *)
(* discovery of max(ID), range sizing, batch query, row scan, and the      *)
(* for-loop post statement i += thisBatchSize.                             *)
(***************************************************************************)
EXTENDS Integers, Sequences, FiniteSets, TLC

\* ---------------------------------------------------------------- bounds
MaxID == 1            \* the backend's max(ID) grows from 0 up to MaxID
MaxEnd == 4           \* -endID is drawn from 0..MaxEnd
MaxSmallBatch == 2    \* small -batchSize values are drawn from -1..MaxSmallBatch
MaxRows == 1          \* a successful batch query returns 0..MaxRows rows
MaxBelow == 2         \* -startID is drawn from -MaxBelow..MaxEnd, and the timer branch
                      \* is not followed once the cursor is below -MaxBelow
MaxLiveEnd == 2       \* -endID is drawn from 0..MaxLiveEnd where liveness is checked

\* ------------------------------------------------------ program constants
MaxBatchSize == 100000      \* "batchSize must be <=100000"
PollInterval == 15          \* sleepFor = time.Second * 15

StartIDs == -MaxBelow .. MaxEnd
EndIDs == 0 .. MaxEnd
BatchSizes == (-1 .. MaxSmallBatch) \cup {MaxBatchSize, MaxBatchSize + 1}

\* ------------------------------------------------- strings of the builder
\* A Go string is modelled as the sequence of its characters.
Lower == <<"a", "b", "c", "d", "e", "f", "g", "h", "i", "j", "k", "l", "m",
           "n", "o", "p", "q", "r", "s", "t", "u", "v", "w", "x", "y", "z">>
Upper == <<"A", "B", "C", "D", "E", "F", "G", "H", "I", "J", "K", "L", "M",
           "N", "O", "P", "Q", "R", "S", "T", "U", "V", "W", "X", "Y", "Z">>
DigitChars == <<"0", "1", "2", "3", "4", "5", "6", "7", "8", "9">>
Digit == {DigitChars[k] : k \in 1 .. Len(DigitChars)}

sNONE == <<"N", "O", "N", "E">>
sANY == <<"A", "N", "Y">>
sRFC822NAME == <<"R", "F", "C", "8", "2", "2", "N", "A", "M", "E">>
sDNSNAME == <<"D", "N", "S", "N", "A", "M", "E">>
sIPADDRESS == <<"I", "P", "A", "D", "D", "R", "E", "S", "S">>

\* Values of -q, -subjectType and -sanType given on the command line.
Qs == {<<>>, <<"%">>, <<"a", "%">>}
SubjectTypes == {sNONE, <<"n", "o", "n", "e">>, sANY, <<"A", "n", "y">>, <<"1", ".", "2", ".", "3">>, <<".", ".", "1">>,
                 <<"7">>, <<"1", ".">>, <<"1", "x">>, <<"c", "n">>, <<>>}
SanTypes == {sNONE, <<"N", "o", "n", "e">>, sANY, <<"a", "n", "y">>, <<"d", "N", "S", "N", "a", "m", "e">>, sDNSNAME, <<"r", "f", "c", "8", "2", "2", "N", "a", "m", "e">>,
             <<"i", "P", "A", "d", "d", "r", "e", "s", "s">>, <<"e", "m", "a", "i", "l">>, <<>>}

\* The flag defaults.
DefaultQ == <<"%">>
DefaultSubjectType == sNONE
DefaultSanType == <<"d", "N", "S", "N", "a", "m", "e">>

\* The numeric flags where the selectors and the clause flags vary.
CfgStartIDs == {0, MaxID + 1}
CfgEndIDs == {1}
CfgBatchSizes == {1, MaxBatchSize + 1}

NoQ == [lo |-> 0, hi |-> 0, st |-> "none"]

VARIABLES
  pc,               \* position of main(): validate, header, throttle, discover,
                    \* query, rows, or a terminal position
  startID,          \* flag -startID; reassigned by the live-edge jump
  endID,            \* flag -endID
  batchSize,        \* flag -batchSize
  i,                \* the loop cursor (nextID)
  maxCertificateID, \* knownMaxID, -1 until discovered
  thisBatchSize,    \* width of the current batch, retained across iterations
  sleepFor,         \* delay awaited by the next throttle select, in seconds
  cancelled,        \* ctx.Done() is closed
  dbMax,            \* the backend's current max(ID)
  rowsLeft,         \* rows of the current result set not yet scanned
  emitted,          \* "Record found" lines logged by the iteration that is
                    \* running or has just ended
  n,                \* the local counter n reported by "Batch end"
  loggedCount,      \* count field of the "Batch end" line of the iteration that
                    \* has just ended, as a set: {} if it logged none
  loggedLast,       \* last field of the "Interrupted" line, as a set: {} if not logged
  \* history of the run, for stating the properties
  startID0,         \* -startID as given on the command line
  lastOutcome,      \* how the previous iteration ended
  lastQ,            \* the most recent batch query issued: bounds and status
  asked,            \* IDs covered by some issued batch query
  okOnce,           \* IDs covered by a successfully completed batch query
  okMulti,          \* IDs covered by more than one successfully completed query
  liveEdge,         \* {M} after the live-edge jump on discovering M, {} before
  \* the search configuration and the statement built from it
  q,                \* flag -q, the free-text pattern
  subjectType,      \* flag -subjectType, upper-cased by the validation
  sanType,          \* flag -sanType, upper-cased by the validation
  unexpiredOnly,    \* flag -unexpiredOnly
  deduplicate,      \* flag -deduplicate
  uniq,             \* flag -uniq
  sort,             \* flag -sort
  showSQLOnly,      \* flag -showSQLOnly
  query,            \* the statement built, as a sequence of fragments; <<>> before
  connected,        \* pgx.ConnectConfig has returned a connection
  lastArgs,         \* the arguments bound by the most recent crtsh.Query call
  subjectType0,     \* -subjectType as given on the command line
  sanType0          \* -sanType as given on the command line

vars == <<pc, startID, endID, batchSize, i, maxCertificateID, thisBatchSize,
          sleepFor, cancelled, dbMax, rowsLeft, emitted, n, loggedCount,
          loggedLast, startID0, lastOutcome, lastQ, asked, okOnce, okMulti, liveEdge,
          q, subjectType, sanType, unexpiredOnly, deduplicate, uniq, sort,
          showSQLOnly, query, connected, lastArgs, subjectType0, sanType0>>

\* The configuration and what main() derives from it before the loop.
cfgFixed == <<q, subjectType, sanType, unexpiredOnly, deduplicate, uniq, sort,
              showSQLOnly, query, connected, subjectType0, sanType0>>
cfgVars == <<cfgFixed, lastArgs>>

histQ == <<lastQ, asked, okOnce, okMulti>>
rowVars == <<rowsLeft, emitted, n, loggedCount>>

Terminal == {"fatal", "shown", "unreachable", "completed", "stopped", "failed"}

\* The state after flag.Parse(), the flags drawn from the given sets.
Start(S, E, B, QS, STS, SAS, FL) ==
  /\ pc = "validate"
  /\ startID \in S
  /\ endID \in E
  /\ batchSize \in B
  /\ q \in QS
  /\ subjectType \in STS
  /\ sanType \in SAS
  /\ subjectType0 = subjectType
  /\ sanType0 = sanType
  /\ unexpiredOnly \in FL
  /\ deduplicate \in FL
  /\ uniq \in FL
  /\ sort \in FL
  /\ showSQLOnly \in BOOLEAN
  /\ query = <<>>
  /\ connected = FALSE
  /\ lastArgs = <<>>
  /\ startID0 = startID
  /\ i = startID
  /\ maxCertificateID = -1
  /\ thisBatchSize = 0
  /\ sleepFor = 0
  /\ cancelled = FALSE
  /\ dbMax = 0
  /\ rowsLeft = 0
  /\ emitted = 0
  /\ n = 0
  /\ loggedCount = {}
  /\ loggedLast = {}
  /\ lastOutcome = "none"
  /\ lastQ = NoQ
  /\ asked = {}
  /\ okOnce = {}
  /\ okMulti = {}
  /\ liveEdge = {}

\* The scan loop under the default selectors and clause flags.
Init ==
  Start(StartIDs, EndIDs, BatchSizes, {DefaultQ}, {DefaultSubjectType},
        {DefaultSanType}, {FALSE})

\* Every selector, pattern and clause flag, under few numeric flags.
CfgInit ==
  Start(CfgStartIDs, CfgEndIDs, CfgBatchSizes, Qs, SubjectTypes, SanTypes, BOOLEAN)

\* ------------------------------------------------------------ pure helpers
\* strings.ToUpper, character by character.
ToUpperChar(c) ==
  IF \E k \in 1 .. Len(Lower) : Lower[k] = c
    THEN Upper[CHOOSE k \in 1 .. Len(Lower) : Lower[k] = c]
    ELSE c
ToUpper(s) == [k \in 1 .. Len(s) |-> ToUpperChar(s[k])]

\* regexp.MatchString("^[0-9.]*[0-9]$", s): MatchFrom(s, k) matches
\* [0-9.]*[0-9]$ against the text from position k on.
RECURSIVE MatchFrom(_, _)
MatchFrom(s, k) ==
  /\ k <= Len(s)
  /\ \/ s[k] \in Digit /\ k = Len(s)
     \/ s[k] \in Digit \cup {"."} /\ MatchFrom(s, k + 1)
MatchString(s) == MatchFrom(s, 1)

\* The if / else-if chain of Fatal calls; st and sa are the upper-cased
\* selectors.  The variant before it leaves out the last branch.
InvalidFlagsBothNoneAllowed(st, sa) ==
  q = <<>> \/ startID > endID \/ batchSize > MaxBatchSize
InvalidFlags(st, sa) ==
  \/ q = <<>>
  \/ startID > endID
  \/ batchSize > MaxBatchSize
  \/ st = sNONE /\ sa = sNONE

\* switch subjectType: "Invalid subjectType".
InvalidSubjectType(st) == st \notin {sNONE, sANY} /\ ~MatchString(st)

\* switch sanType: the default branch, "Invalid sanType".
InvalidSanType(sa) == sa \notin {sNONE, sANY, sRFC822NAME, sDNSNAME, sIPADDRESS}

\* switch sanType: sanTypeNum (the zero value where the default branch exits).
SanTypeNum(sa) ==
  CASE sa \in {sNONE, sANY} -> -1
    [] sa = sRFC822NAME -> 1
    [] sa = sDNSNAME -> 2
    [] sa = sIPADDRESS -> 7
    [] OTHER -> 0

\* Some Fatal branch of the validation is taken.
ConfigRejected ==
  \/ InvalidFlags(ToUpper(subjectType), ToUpper(sanType))
  \/ InvalidSubjectType(ToUpper(subjectType))
  \/ InvalidSanType(ToUpper(sanType))

\* fmt.Sprintf("%d", m)
RECURSIVE FormatNat(_)
FormatNat(m) ==
  IF m < Len(DigitChars)
    THEN <<DigitChars[m + 1]>>
    ELSE FormatNat(m \div Len(DigitChars)) \o <<DigitChars[(m % Len(DigitChars)) + 1]>>
Sprintf(m) == IF m < 0 THEN <<"-">> \o FormatNat(-m) ELSE FormatNat(m)

\* A piece of the statement: its kind k, where its text comes from (the
\* program text, or the flag whose value v is spliced in), and that value.
Fixed(k) == [k |-> k, src |-> "fixed", v |-> <<>>]
Param(m) == [k |-> "PARAM", src |-> "fixed", v |-> Sprintf(m)]
Literal(k, src, v) == [k |-> k, src |-> src, v |-> v]

\* if subjectType != "NONE" { ... if subjectType != "ANY" { ... } }
SubjectBranch(st) ==
  IF st # sNONE
    THEN <<Fixed("SUBJECT_BRANCH")>> \o
         (IF st # sANY THEN <<Literal("ATTRIBUTE_OID", "subjectType", st)>> ELSE <<>>)
    ELSE <<>>

\* The inner test on subjectType left out: UNION before every SAN branch.
SanBranchAlwaysUnion(st, sa) ==
  IF sa # sNONE
    THEN <<Fixed("UNION"), Fixed("SAN_BRANCH")>> \o
         (IF sa # sANY
            THEN <<Literal("TYPE_NUM", "sanTypeNum", Sprintf(SanTypeNum(sa)))>>
            ELSE <<>>)
    ELSE <<>>

\* if sanType != "NONE" { if subjectType != "NONE" { UNION } ...
\*   if sanType != "ANY" { ... } }
SanBranch(st, sa) ==
  IF sa # sNONE
    THEN (IF st # sNONE THEN <<Fixed("UNION")>> ELSE <<>>) \o
         <<Fixed("SAN_BRANCH")>> \o
         (IF sa # sANY
            THEN <<Literal("TYPE_NUM", "sanTypeNum", Sprintf(SanTypeNum(sa)))>>
            ELSE <<>>)
    ELSE <<>>

\* The pattern spliced into the statement text instead of a third parameter.
WhereClausePatternInline ==
  <<Fixed("WHERE_ID_BETWEEN"), Param(1), Fixed("AND"), Param(2)>> \o
  (IF q # <<>> THEN <<Fixed("IDENTITY_ILIKE"), Literal("PATTERN", "q", q)>> ELSE <<>>)

\* ) name ON TRUE WHERE c.ID BETWEEN $1 AND $2 [AND name.IDENTITY ILIKE $3]
WhereClause ==
  <<Fixed("WHERE_ID_BETWEEN"), Param(1), Fixed("AND"), Param(2)>> \o
  (IF q # <<>> THEN <<Fixed("IDENTITY_ILIKE"), Param(3)>> ELSE <<>>)

\* The clauses appended for -unexpiredOnly, -deduplicate, -uniq and -sort.
OptionalClauses ==
  (IF unexpiredOnly THEN <<Fixed("NOT_AFTER_GT_NOW")>> ELSE <<>>) \o
  (IF deduplicate THEN <<Fixed("NOT_EXISTS_EARLIER")>> ELSE <<>>) \o
  (IF uniq THEN <<Fixed("GROUP_BY")>> ELSE <<>>) \o
  (IF sort THEN <<Fixed("ORDER_BY")>> ELSE <<>>)

\* The statement built for the upper-cased selectors st and sa.
BuildQuery(st, sa) ==
  <<Fixed("SELECT_LATERAL")>> \o SubjectBranch(st) \o SanBranch(st, sa) \o
  WhereClause \o OptionalClauses

\* The loop condition of the for statement.
LoopCondition(cur) == cur < endID

\* The post statement of the for statement, run by every continue and by
\* falling off the end of the body.
PostStatement(cur, w) == cur + w

\* maxCertificateID <= i : the cursor has caught up, discovery is needed.
NeedsDiscovery(cur, mx) == mx <= cur

\* maxCertificateID after the clamp to endID.
ClampMax(mx) == IF mx > endID THEN endID ELSE mx

\* Cursor after the live-edge jump.
JumpCursor(cur, mx) == IF cur = -1 THEN mx + 1 ELSE cur

Available(cur, mx) == mx - cur + 1

FullBatch(cur, mx) == Available(cur, mx) >= batchSize

\* thisBatchSize after the sizing statement.
BatchWidth(cur, mx) == IF FullBatch(cur, mx) THEN batchSize ELSE Available(cur, mx)

\* The "No more certificates available yet" branch.
NoDataBranch(cur, mx) == ~FullBatch(cur, mx) /\ Available(cur, mx) <= 0

\* sleepFor after the sizing statement, s being its value before.
SleepAfterSizing(cur, mx, s) == IF FullBatch(cur, mx) THEN 0 ELSE s

\* The reset left out: sleepFor keeps the value the previous iteration gave it.
SleepResetDropped == sleepFor

\* sleepFor after the select.
SleepReset == PollInterval

\* ----------------------------------------------------------------- actions
\* The selectors are upper-cased and the input validated; then the statement
\* is built and, with -showSQLOnly, printed before main() returns.
Validate ==
  /\ pc = "validate"
  /\ subjectType' = ToUpper(subjectType)
  /\ sanType' = ToUpper(sanType)
  /\ IF ConfigRejected
       THEN pc' = "fatal" /\ query' = query
       ELSE /\ query' = BuildQuery(ToUpper(subjectType), ToUpper(sanType))
            /\ pc' = IF showSQLOnly THEN "shown" ELSE "connect"
  /\ UNCHANGED <<startID, endID, batchSize, i, maxCertificateID, thisBatchSize,
                 sleepFor, cancelled, dbMax, rowVars, loggedLast, startID0,
                 lastOutcome, histQ, liveEdge, q, unexpiredOnly, deduplicate,
                 uniq, sort, showSQLOnly, connected, lastArgs, subjectType0,
                 sanType0>>

\* pgx.ConnectConfig returns a connection: the loop is initialised.
ConnectOK ==
  /\ pc = "connect"
  /\ connected' = TRUE
  /\ pc' = "header"
  /\ UNCHANGED <<startID, endID, batchSize, i, maxCertificateID, thisBatchSize,
                 sleepFor, cancelled, dbMax, rowVars, loggedLast, startID0,
                 lastOutcome, histQ, liveEdge, q, subjectType, sanType,
                 unexpiredOnly, deduplicate, uniq, sort, showSQLOnly, query,
                 lastArgs, subjectType0, sanType0>>

\* pgx.ConnectConfig fails: "Could not connect to crt.sh:5432".
ConnectFail ==
  /\ pc = "connect"
  /\ pc' = "unreachable"
  /\ UNCHANGED <<startID, endID, batchSize, i, maxCertificateID, thisBatchSize,
                 sleepFor, cancelled, dbMax, rowVars, loggedLast, startID0,
                 lastOutcome, histQ, liveEdge, cfgVars>>

\* for ...; i < endID; ...  The log lines of the iteration that ended are no
\* longer those of the iteration that has just ended.
LoopHeader ==
  /\ pc = "header"
  /\ pc' = IF LoopCondition(i) THEN "throttle" ELSE "completed"
  /\ emitted' = 0
  /\ loggedCount' = {}
  /\ UNCHANGED cfgVars
  /\ UNCHANGED <<startID, endID, batchSize, i, maxCertificateID, thisBatchSize,
                 sleepFor, cancelled, dbMax, rowsLeft, n, loggedLast, startID0,
                 lastOutcome, histQ, liveEdge>>

\* Range sizing for cursor cur and known max mx, with s the value of sleepFor
\* before it: either the no-data continue, or "Batch start" and the batch
\* query is issued.
Sizing(cur, mx, s) ==
  /\ thisBatchSize' = BatchWidth(cur, mx)
  /\ sleepFor' = SleepAfterSizing(cur, mx, s)
  /\ IF NoDataBranch(cur, mx)
       THEN /\ i' = PostStatement(cur, BatchWidth(cur, mx))
            /\ pc' = "header"
            /\ lastOutcome' = "noData"
            /\ UNCHANGED <<histQ, lastArgs>>
       ELSE /\ i' = cur
            /\ pc' = "query"
            /\ lastOutcome' = "inIteration"
            /\ lastQ' = [lo |-> cur, hi |-> cur + BatchWidth(cur, mx) - 1, st |-> "inflight"]
            /\ asked' = asked \cup (cur .. (cur + BatchWidth(cur, mx) - 1))
            /\ lastArgs' = <<cur, cur + BatchWidth(cur, mx) - 1, q>>
            /\ UNCHANGED <<okOnce, okMulti>>

\* case <-time.After(sleepFor): then sleepFor is reset and, unless discovery
\* is needed, the range is sized.
TimerFires ==
  /\ pc = "throttle"
  /\ i >= -MaxBelow
  /\ IF NeedsDiscovery(i, maxCertificateID)
       THEN /\ pc' = "discover"
            /\ sleepFor' = SleepReset
            /\ UNCHANGED <<i, thisBatchSize, lastOutcome, histQ, lastArgs>>
       ELSE Sizing(i, maxCertificateID, SleepReset)
  /\ UNCHANGED cfgFixed
  /\ UNCHANGED <<startID, endID, batchSize, maxCertificateID, cancelled, dbMax,
                 rowVars, loggedLast, startID0, liveEdge>>

\* case <-ctx.Done(): "Interrupted" is logged with last = i - 1.
Interrupted ==
  /\ pc = "throttle"
  /\ cancelled
  /\ loggedLast' = {i - 1}
  /\ pc' = "stopped"
  /\ UNCHANGED cfgVars
  /\ UNCHANGED <<startID, endID, batchSize, i, maxCertificateID, thisBatchSize,
                 sleepFor, cancelled, dbMax, rowVars, startID0, lastOutcome,
                 histQ, liveEdge>>

\* SELECT max(ID) fails: continue.
DiscoverFail ==
  /\ pc = "discover"
  /\ i' = PostStatement(i, thisBatchSize)
  /\ pc' = "header"
  /\ lastOutcome' = "discFail"
  /\ UNCHANGED cfgVars
  /\ UNCHANGED <<startID, endID, batchSize, maxCertificateID, thisBatchSize,
                 sleepFor, cancelled, dbMax, rowVars, loggedLast, startID0,
                 histQ, liveEdge>>

\* SELECT max(ID) succeeds: live-edge jump, clamp, then range sizing.
DiscoverOK ==
  /\ pc = "discover"
  /\ maxCertificateID' = ClampMax(dbMax)
  /\ startID' = IF i = -1 THEN dbMax + 1 ELSE startID
  /\ liveEdge' = IF i = -1 THEN {dbMax} ELSE liveEdge
  /\ Sizing(JumpCursor(i, dbMax), ClampMax(dbMax), sleepFor)
  /\ UNCHANGED cfgFixed
  /\ UNCHANGED <<endID, batchSize, cancelled, dbMax, rowVars, loggedLast, startID0>>

\* A failure branch that also looks at the context and stops the loop.
BatchFailObservesCancel ==
  /\ pc = "query"
  /\ i' = PostStatement(i, thisBatchSize)
  /\ pc' = IF cancelled THEN "stopped" ELSE "header"
  /\ lastOutcome' = "batchFail"
  /\ lastQ' = [lastQ EXCEPT !.st = "failed"]
  /\ UNCHANGED cfgVars
  /\ UNCHANGED <<startID, endID, batchSize, maxCertificateID, thisBatchSize,
                 sleepFor, cancelled, dbMax, rowVars, loggedLast, startID0,
                 asked, okOnce, okMulti, liveEdge>>

\* crtsh.Query fails: continue.
BatchFail ==
  /\ pc = "query"
  /\ i' = PostStatement(i, thisBatchSize)
  /\ pc' = "header"
  /\ lastOutcome' = "batchFail"
  /\ lastQ' = [lastQ EXCEPT !.st = "failed"]
  /\ UNCHANGED cfgVars
  /\ UNCHANGED <<startID, endID, batchSize, maxCertificateID, thisBatchSize,
                 sleepFor, cancelled, dbMax, rowVars, loggedLast, startID0,
                 asked, okOnce, okMulti, liveEdge>>

\* Rows a query over [lo, hi] can return: none when c.ID BETWEEN lo AND hi
\* is an empty range.
RowCounts(lo, hi) == IF lo <= hi THEN 0 .. MaxRows ELSE {0}

\* crtsh.Query succeeds with k rows to scan; var n int64 is declared (zero).
BatchOK ==
  /\ pc = "query"
  /\ \E k \in RowCounts(lastQ.lo, lastQ.hi) : rowsLeft' = k
  /\ emitted' = 0
  /\ n' = 0
  /\ pc' = "rows"
  /\ UNCHANGED cfgVars
  /\ UNCHANGED <<startID, endID, batchSize, i, maxCertificateID, thisBatchSize,
                 sleepFor, cancelled, dbMax, loggedCount, loggedLast, startID0,
                 lastOutcome, histQ, liveEdge>>

\* rows.Next() is true and rows.Scan succeeds: "Record found".
RowEmit ==
  /\ pc = "rows"
  /\ rowsLeft > 0
  /\ rowsLeft' = rowsLeft - 1
  /\ emitted' = emitted + 1
  /\ UNCHANGED cfgVars
  /\ UNCHANGED <<pc, startID, endID, batchSize, i, maxCertificateID,
                 thisBatchSize, sleepFor, cancelled, dbMax, n, loggedCount,
                 loggedLast, startID0, lastOutcome, histQ,
                 liveEdge>>

\* A scan failure handled like the query failures: continue.
RowScanFailContinues ==
  /\ pc = "rows"
  /\ rowsLeft > 0
  /\ i' = PostStatement(i, thisBatchSize)
  /\ pc' = "header"
  /\ lastOutcome' = "scanFail"
  /\ lastQ' = [lastQ EXCEPT !.st = "scanfail"]
  /\ UNCHANGED cfgVars
  /\ UNCHANGED <<startID, endID, batchSize, maxCertificateID, thisBatchSize,
                 sleepFor, cancelled, dbMax, rowVars, loggedLast, startID0,
                 asked, okOnce, okMulti, liveEdge>>

\* rows.Scan fails: break for_loop.
RowScanFail ==
  /\ pc = "rows"
  /\ rowsLeft > 0
  /\ pc' = "failed"
  /\ lastOutcome' = "scanFail"
  /\ lastQ' = [lastQ EXCEPT !.st = "scanfail"]
  /\ UNCHANGED cfgVars
  /\ UNCHANGED <<startID, endID, batchSize, i, maxCertificateID, thisBatchSize,
                 sleepFor, cancelled, dbMax, rowVars, loggedLast, startID0,
                 asked, okOnce, okMulti, liveEdge>>

\* rows.Next() is false: "Batch end" with count n, then the post statement.
BatchEnd ==
  /\ pc = "rows"
  /\ rowsLeft = 0
  /\ loggedCount' = {n}
  /\ i' = PostStatement(i, thisBatchSize)
  /\ pc' = "header"
  /\ lastOutcome' = "batchOK"
  /\ lastQ' = [lastQ EXCEPT !.st = "ok"]
  /\ okOnce' = okOnce \cup (lastQ.lo .. lastQ.hi)
  /\ okMulti' = okMulti \cup (okOnce \cap (lastQ.lo .. lastQ.hi))
  /\ UNCHANGED cfgVars
  /\ UNCHANGED <<startID, endID, batchSize, maxCertificateID, thisBatchSize,
                 sleepFor, cancelled, dbMax, rowsLeft, emitted, n, loggedLast,
                 startID0, asked, liveEdge>>

\* Environment: SIGHUP / SIGINT / SIGTERM cancels the context.
Cancel ==
  /\ pc \notin Terminal
  /\ ~cancelled
  /\ cancelled' = TRUE
  /\ UNCHANGED cfgVars
  /\ UNCHANGED <<pc, startID, endID, batchSize, i, maxCertificateID,
                 thisBatchSize, sleepFor, dbMax, rowVars, loggedLast, startID0,
                 lastOutcome, histQ, liveEdge>>

\* Environment: the append-only certificate table gains a record.
Grow ==
  /\ pc \notin Terminal
  /\ dbMax < MaxID
  /\ dbMax' = dbMax + 1
  /\ UNCHANGED cfgVars
  /\ UNCHANGED <<pc, startID, endID, batchSize, i, maxCertificateID,
                 thisBatchSize, sleepFor, cancelled, rowVars, loggedLast,
                 startID0, lastOutcome, histQ, liveEdge>>

Next ==
  \/ Validate
  \/ ConnectOK
  \/ ConnectFail
  \/ LoopHeader
  \/ TimerFires
  \/ Interrupted
  \/ DiscoverFail
  \/ DiscoverOK
  \/ BatchFail
  \/ BatchOK
  \/ RowEmit
  \/ RowScanFail
  \/ BatchEnd
  \/ Cancel
  \/ Grow

Spec == Init /\ [][Next]_vars

\* The steps of main() itself, without the environment.
LoopStep ==
  \/ Validate
  \/ ConnectOK
  \/ ConnectFail
  \/ LoopHeader
  \/ TimerFires
  \/ Interrupted
  \/ DiscoverFail
  \/ DiscoverOK
  \/ BatchFail
  \/ BatchOK
  \/ RowEmit
  \/ RowScanFail
  \/ BatchEnd

\* main() keeps running (every blocking call returns), and a select that
\* finds ctx.Done() ready again and again eventually takes that case: Go
\* chooses among the ready cases of a select uniformly at random.
LiveInit == Init /\ endID <= MaxLiveEnd
LiveSpec == LiveInit /\ [][Next]_vars /\ WF_vars(LoopStep) /\ SF_vars(Interrupted)

\* In addition the table keeps growing up to MaxID and the backend errors are
\* not permanent: a query that is retried again and again eventually succeeds.
FairSpec ==
  /\ LiveInit /\ [][Next]_vars
  /\ WF_vars(LoopStep) /\ SF_vars(Interrupted)
  /\ WF_vars(Grow) /\ SF_vars(DiscoverOK) /\ SF_vars(BatchOK)

\* The same program, started from every selector, pattern and clause flag.
CfgSpec == CfgInit /\ [][Next]_vars

TypeOK ==
  /\ pc \in {"validate", "connect", "header", "throttle", "discover", "query", "rows"}
           \cup Terminal
  /\ sleepFor \in {0, PollInterval}
  /\ cancelled \in BOOLEAN
  /\ dbMax \in 0 .. MaxID
  /\ okMulti \subseteq okOnce
  /\ okOnce \subseteq asked

\* ------------------------------------------------------------- properties
IterationStarted == pc = "throttle"

\* A step that issues a batch query.
IssuesQuery == pc # "query" /\ pc' = "query"

\* A step that runs the range sizing, the cursor it sizes for (after the
\* live-edge jump, if any) and the available count it computes.
SizingStep == DiscoverOK \/ (TimerFires /\ ~NeedsDiscovery(i, maxCertificateID))
SizedCursor == IF pc = "discover" THEN JumpCursor(i, dbMax) ELSE i
SizedAvailable ==
  IF pc = "discover"
    THEN Available(JumpCursor(i, dbMax), ClampMax(dbMax))
    ELSE Available(i, maxCertificateID)

\* The properties below that fail are stated for configurations with
\* batchSize >= 1, so that they do not fail merely through widths <= 0.
PositiveBatch == batchSize >= 1

\* C1: when the batch query fails, the loop restarts with the cursor the
\* failed iteration had (the cursor is not advanced), for every width.
C1_BatchFailKeepsCursor ==
  [][(PositiveBatch /\ BatchFail) => i' = i]_vars

\* C2: when the discovery query fails, the cursor and knownMaxID are left
\* unchanged for the retry; stated here for the failure that follows a
\* successfully completed batch.
C2_DiscoverFailKeepsCursor ==
  [][(PositiveBatch /\ lastQ.st = "ok" /\ DiscoverFail) => (i' = i /\ maxCertificateID' = maxCertificateID)]_vars

\* C3: of two consecutive batch queries, the second starts at the end of the
\* first plus one and is issued only after the first completed successfully.
C3_RangesAdjacentInOrder ==
  [][(PositiveBatch /\ IssuesQuery /\ lastQ.st # "none")
       => (lastQ.st = "ok" /\ lastQ'.lo = lastQ.hi + 1)]_vars

\* C4: when available = knownMaxID - nextID + 1 is <= 0, no batch query is
\* issued and the cursor is unchanged at the start of the next iteration.
C4_NoDataKeepsCursor ==
  [][(PositiveBatch /\ SizingStep /\ SizedAvailable <= 0)
       => (pc' = "header" /\ asked' = asked /\ i' = SizedCursor)]_vars

\* C5: after a discovery failure or a batch query failure the delay awaited
\* before the next iteration is the polling interval, never zero.
C5_ErrorThenPollInterval ==
  (PositiveBatch /\ IterationStarted /\ lastOutcome \in {"discFail", "batchFail"}) => sleepFor = PollInterval

\* C6: in every iteration with nextID <= knownMaxID the batch width is
\* min(batchSize, knownMaxID - nextID + 1) and is at least 1.
C6_RangeSizingLaw ==
  (pc = "query" /\ i <= maxCertificateID)
    => /\ thisBatchSize = (IF batchSize <= maxCertificateID - i + 1
                             THEN batchSize ELSE maxCertificateID - i + 1)
       /\ thisBatchSize >= 1

C8_CeilingInclusive ==
  (PositiveBatch /\ pc = "completed" /\ startID0 = endID /\ dbMax >= endID)
    => (asked = {endID} /\ lastQ = [lo |-> endID, hi |-> endID, st |-> "ok"])

\* C9: after the live-edge jump on discovering M the cursor starts at M + 1
\* and no batch query of the run covers an ID <= M.
C9_LiveEdgeNeverBehind ==
  (PositiveBatch /\ startID0 = -1) => \A M \in liveEdge : (startID = M + 1 /\ \A id \in asked : id > M)

\* C10: on cancellation the logged last is nextID - 1 and every ID from the
\* effective start through last was covered by exactly one successful query.
C10_StoppedLastIsProcessed ==
  (PositiveBatch /\ pc = "stopped") =>
    /\ loggedLast = {i - 1}
    /\ \A id \in startID .. (i - 1) : id \in okOnce /\ id \notin okMulti

\* C11: the loop stops only from the throttle select, on cancellation, never
\* while a batch query is still in flight; and once cancellation is signalled
\* the loop eventually terminates.
C11_CancelOnlyAtThrottle ==
  /\ [][pc' = "stopped" => (pc = "throttle" /\ cancelled /\ lastQ.st # "inflight")]_vars
  /\ (cancelled ~> pc \in Terminal)

C11_Witness ==
  /\ pc = "stopped"
  /\ cancelled
  /\ lastQ.st \in {"ok", "failed"}

\* C12: a row-scan failure ends the loop at once in Failed, with the cursor
\* still at the start of the batch that held the bad row, and nothing is
\* queried afterwards.
C12_ScanFailTerminal ==
  /\ [][RowScanFail => (pc' = "failed" /\ i' = i /\ asked' = asked)]_vars
  /\ [][pc = "failed" => UNCHANGED <<pc, i, maxCertificateID, lastQ, asked>>]_vars
  /\ [](pc = "failed" => (lastQ.st = "scanfail" /\ i = lastQ.lo /\ i <= lastQ.hi))

C12_Witness ==
  /\ pc = "failed"
  /\ lastQ.st = "scanfail"
  /\ okOnce # {}

\* C13: the loop runs while nextID < endID and ends in Completed with
\* nextID >= endID; if the backend max reaches endID, errors are not permanent
\* and there is no cancellation or row-scan failure, Completed is eventually
\* reached.  Stated for batchSize >= 0, where the cursor stays within
\* -MaxBelow..MaxEnd.
C13_EventuallyCompleted ==
  /\ [][(pc = "header" /\ pc' # pc) => (pc' = IF i < endID THEN "throttle" ELSE "completed")]_vars
  /\ [](pc = "completed" => i >= endID)
  /\ (batchSize >= 0 =>
        ([](dbMax < endID) \/ <>(cancelled \/ pc \in Terminal)))

\* The liveness part of C13 for batchSize >= 1 only.
C13_PositiveBatchCompletes ==
  (batchSize >= 1 =>
        ([](dbMax < endID) \/ <>(cancelled \/ pc \in Terminal)))

\* C17: every batch query issued has bounds lo <= hi, hi <= endID,
\* hi <= knownMaxID and hi - lo + 1 <= batchSize, in every accepted
\* configuration.
C17_QueryBounds ==
  pc = "query" =>
    /\ lastQ.lo <= lastQ.hi
    /\ lastQ.hi <= endID
    /\ lastQ.hi <= maxCertificateID
    /\ lastQ.hi - lastQ.lo + 1 <= batchSize

\* The bounds of C17 for batchSize >= 1 only.
C17_PositiveBatchBounds == PositiveBatch => C17_QueryBounds

\* C18: the count of the "Batch end" line equals the number of "Record
\* found" lines of that batch.
C18_BatchEndCount ==
  (pc = "header" /\ lastOutcome = "batchOK") => loggedCount = {emitted}

\* C19: with an explicit startID >= 0 no batch query covers an ID below
\* startID and the cursor never decreases.
C19_NeverBelowStart ==
  [][(PositiveBatch /\ startID0 >= 0)
       => (i' >= i /\ \A id \in asked' : id >= startID0)]_vars

\* C20: with batchSize >= 1 (the backend max never decreases) every batch
\* query issued lies strictly above all IDs of the queries issued before it.
C20_RangesStrictlyIncreasing ==
  [][(PositiveBatch /\ IssuesQuery) => \A id \in asked : id < lastQ'.lo]_vars

\* -------------------------------------------- configuration and builder
\* The selectors as the claims name them: the command-line values compared
\* without regard to case.
subjectSelector == ToUpper(subjectType0)
sanSelector == ToUpper(sanType0)

\* A dotted-decimal OID in the sense of ^[0-9.]*[0-9]$ : digits and dots
\* only, at least one character, the last one a digit.
OIDShaped(s) ==
  /\ Len(s) >= 1
  /\ \A k \in 1 .. Len(s) : s[k] \in Digit \cup {"."}
  /\ s[Len(s)] \in Digit

\* The configuration errors the claim lists.
ConfigurationError ==
  \/ q = <<>>
  \/ startID0 > endID
  \/ batchSize > MaxBatchSize
  \/ subjectSelector = sNONE /\ sanSelector = sNONE
  \/ subjectSelector \notin {sNONE, sANY} /\ ~OIDShaped(subjectSelector)
  \/ sanSelector \notin {sNONE, sANY, sRFC822NAME, sDNSNAME, sIPADDRESS}

\* Nothing has been asked of the backend.
BackendUntouched ==
  /\ ~connected
  /\ maxCertificateID = -1
  /\ lastOutcome = "none"
  /\ lastQ = NoQ
  /\ asked = {}
  /\ lastArgs = <<>>

\* C14: once the validation has run, the run is in the fatal state exactly
\* if the configuration has one of the listed errors (empty pattern,
\* startID > endID, batchSize over 100000, both selectors NONE, a subjectType
\* that is not NONE / ANY / OID-shaped, a sanType outside the five names, all
\* compared case-insensitively), and in the fatal state no connection,
\* discovery query or batch query has been made; every other configuration
\* passes the validation.
C14_ConfigErrorsFatal ==
  pc # "validate" =>
    /\ pc = "fatal" <=> ConfigurationError
    /\ pc = "fatal" => BackendUntouched

\* Both selectors NONE, given in lower and mixed case, is rejected.
C14_Witness ==
  /\ pc = "fatal"
  /\ subjectType0 = <<"n", "o", "n", "e">>
  /\ sanType0 = <<"N", "o", "n", "e">>
  /\ q # <<>> /\ startID0 <= endID /\ batchSize <= MaxBatchSize

\* The statement has been built.
Built == pc \notin {"validate", "fatal"}

Occurrences(k) == Cardinality({j \in 1 .. Len(query) : query[j].k = k})
Has(k) == Occurrences(k) >= 1

\* The type code of a SAN selector that filters.
TypeCode(sa) ==
  CASE sa = sRFC822NAME -> <<"1">>
    [] sa = sDNSNAME -> <<"2">>
    [] sa = sIPADDRESS -> <<"7">>
    [] OTHER -> <<>>

\* C15: for every valid configuration the statement has the subject-attribute
\* branch iff subjectSelector # NONE, with an OID filter (of exactly that
\* OID) iff it is not ANY; the SAN branch iff sanSelector # NONE, with a
\* type-code filter 1 / 2 / 7 iff it is not ANY; and UNION iff both branches
\* are present.  No piece occurs twice.
C15_BranchesAndUnion ==
  Built =>
    /\ Has("SUBJECT_BRANCH") <=> subjectSelector # sNONE
    /\ Has("ATTRIBUTE_OID") <=> subjectSelector \notin {sNONE, sANY}
    /\ \A j \in 1 .. Len(query) :
         query[j].k = "ATTRIBUTE_OID" => query[j].v = subjectSelector
    /\ Has("SAN_BRANCH") <=> sanSelector # sNONE
    /\ Has("TYPE_NUM") <=> sanSelector \notin {sNONE, sANY}
    /\ \A j \in 1 .. Len(query) :
         query[j].k = "TYPE_NUM" => query[j].v = TypeCode(sanSelector)
    /\ Has("UNION") <=> (Has("SUBJECT_BRANCH") /\ Has("SAN_BRANCH"))
    /\ \A k \in {"SUBJECT_BRANCH", "ATTRIBUTE_OID", "SAN_BRANCH", "TYPE_NUM", "UNION"} :
         Occurrences(k) <= 1

\* subjectType = "1.2.3" with sanType NONE: the subject branch alone,
\* filtered by that OID, no UNION.
C15_Witness ==
  /\ Built
  /\ subjectType0 = <<"1", ".", "2", ".", "3">>
  /\ sanSelector = sNONE
  /\ Has("SUBJECT_BRANCH") /\ Has("ATTRIBUTE_OID")
  /\ ~Has("SAN_BRANCH") /\ ~Has("UNION")

\* The positions of the statement holding parameter $m.
ParamAt(m) ==
  {j \in 1 .. Len(query) : query[j].k = "PARAM" /\ query[j].v = <<DigitChars[m + 1]>>}

\* C16: for every valid configuration, whatever the selectors and the
\* unexpiredOnly, deduplicate, uniq and sort flags, the statement holds each
\* of $1, $2 and $3 exactly once and no other parameter, no piece of it is
\* made from the pattern, and a batch query binds (nextID,
\* nextID + width - 1, pattern) to it.
C16_ParametersNotLiteral ==
  Built =>
    /\ \A m \in 1 .. 3 : Cardinality(ParamAt(m)) = 1
    /\ Occurrences("PARAM") = 3
    /\ \A j \in 1 .. Len(query) : query[j].src # "q"
    /\ pc = "query" => lastArgs = <<i, i + thisBatchSize - 1, q>>

\* A batch query in flight under all four clause flags and a pattern that
\* is not the default.
C16_Witness ==
  /\ pc = "query"
  /\ unexpiredOnly /\ deduplicate /\ uniq /\ sort
  /\ subjectSelector # sNONE /\ sanSelector # sNONE
  /\ q = <<"a", "%">>
  /\ lastArgs = <<lastQ.lo, lastQ.hi, q>>
====
